---- MODULE Spec2Model ----
(***************************************************************************)
(* Model of the document-extraction application (App component, the        *)
(* variant with bounded-concurrency extraction, ETA and retry of failed    *)
(* documents).  JavaScript runs the handlers on one thread: everything     *)
(* between two awaits is one atomic step, so there is one action per       *)
(* stretch of synchronous code.                                            *)
(***************************************************************************)
EXTENDS Integers, Sequences, FiniteSets, TLC

(* ------------------------------ bounds --------------------------------- *)
\* most files the user uploads in the behaviours of Spec
MaxFiles == 2
\* number of files of the batch in the behaviours of SpecPool
PoolFiles == 6
\* most awaits that reject in one call, in the behaviours of SpecPool
MaxRejects == 1
\* number of clock advances in one behaviour
MaxTicks == 2
\* milliseconds of one clock advance
TickMs == 600
\* value of Date.now() when the application is constructed
ClockStart == 1000
\* number of files of the batch in the behaviours of SpecEta
EtaFiles == 3
\* the durations given to formatEta in SpecFormat: FormatSamples multiples of
\* FormatStepMs milliseconds, from 10 steps below zero, and each less 1 ms
FormatSamples == 1300
FormatStepMs == 100
\* pieces of one manually typed header input
MaxPieces == 2

(* --------------------------- program constants ------------------------- *)
\* variant: one worker per file of the batch
WorkerPerFile == PoolFiles
CONCURRENCY_LIMIT == 5
SNO == "S.No"
DOCNAME == "Document Name"
FAILED == "--- EXTRACTION FAILED ---"
NA == "N/A"
\* JavaScript's undefined and null, as cell values and as the value of
\* string-valued state (error, estimatedTimeRemaining)
UNDEFINED == "<undefined>"
JNULL == "<null>"

Workers == 1..CONCURRENCY_LIMIT

(* ------------------------------ inputs --------------------------------- *)
\* the documents the user can upload, in the order they are offered
FilePool == <<"a.pdf", "b.pdf", "c.pdf", "d.pdf", "e.pdf", "f.pdf", "g.pdf", "h.pdf">>
\* header lists the extraction service suggests
AIHeaderLists == {<<"Amount">>, <<"Amount", "Date">>}
\* header lists the user can confirm in the header configuration
HeaderLists ==
  { <<SNO, DOCNAME, "Amount">>, <<"Amount">>, <<DOCNAME, "Amount">>, <<"Amount", SNO>>,
    <<SNO, "Date", "Amount">>, <<SNO, DOCNAME>>, <<DOCNAME>>, <<SNO>> }
\* the header lists confirmed in the behaviours of SpecTime
TimeHeaderLists == { <<SNO, DOCNAME, "Amount">>, <<"Amount">> }

Range(s) == {s[i] : i \in 1..Len(s)}
Min(a, b) == IF a < b THEN a ELSE b

\* what the document file holds for header h
ValueOf(file, h) == file \o ":" \o h

(* ----------------------------- JS helpers ------------------------------ *)
\* obj[h] of a JavaScript object held as a function from its keys
Get(obj, h) == IF h \in DOMAIN obj THEN obj[h] ELSE UNDEFINED
\* variant: only undefined is replaced (v === undefined ? d : v)
CoalesceUndefined(v, d) == IF v = UNDEFINED THEN d ELSE v
\* v ?? d
Coalesce(v, d) == IF v \in {UNDEFINED, JNULL} THEN d ELSE v
\* s.filter(h => Keep(h))
RECURSIVE FilterSeq(_, _)
FilterSeq(s, keep) ==
  IF s = <<>> THEN <<>>
  ELSE IF Head(s) \in keep THEN <<Head(s)>> \o FilterSeq(Tail(s), keep)
       ELSE FilterSeq(Tail(s), keep)
\* [...new Set(s)]
RECURSIVE Dedupe(_)
Dedupe(s) ==
  IF s = <<>> THEN <<>>
  ELSE LET r == Dedupe(SubSeq(s, 1, Len(s) - 1))
       IN IF s[Len(s)] \in Range(r) THEN r ELSE Append(r, s[Len(s)])
\* variant: Math.floor(n / d)
RoundDivFloor(n, d) == n \div d
\* Math.round(n / d) for n >= 0, d > 0
RoundDiv(n, d) == (2 * n + d) \div (2 * d)

\* a slot of the results array: null or a parsed JSON value
NullSlot == [kind |-> "null"]
ObjSlot(row) == [kind |-> "obj", row |-> row]

\* the queue entry { file, index }
Item(file, index) == [file |-> file, index |-> index]
NoItem == Item("", -1)

(* --------------------------- ETA arithmetic ---------------------------- *)
\* Durations are exact fractions <<numerator, denominator>> of milliseconds,
\* denominator > 0; the null of smoothedEtaRef.current is <<>>.  The
\* non-finite numbers are written with denominator 0: <<0, 0>> is NaN and
\* <<1, 0>>, <<-1, 0>> are the infinities.
RECURSIVE GCD(_, _)
GCD(a, b) == IF b = 0 THEN a ELSE GCD(b, a % b)
Abs(a) == IF a < 0 THEN -a ELSE a
Rat(n, d) == LET g == GCD(Abs(n), d) IN IF g = 0 THEN <<0, 1>> ELSE <<n \div g, d \div g>>
NullEta == <<>>

\* variant: the new sample and the previous one weigh the same
SmoothEven(raw, prev) ==
  IF prev = NullEta THEN raw
  ELSE Rat(raw[1] * prev[2] + prev[1] * raw[2], 2 * raw[2] * prev[2])
\* remainingFiles * (elapsed / newCount)
RawEtaMs(total, newCount, elapsed) == Rat((total - newCount) * elapsed, newCount)
\* smoothingFactor * rawEtaMs + (1 - smoothingFactor) * smoothedEtaRef.current
Smooth(raw, prev) ==
  IF prev = NullEta THEN raw
  ELSE Rat(2 * raw[1] * prev[2] + 3 * prev[1] * raw[2], 5 * raw[2] * prev[2])

formatEta(ms) ==
  IF ms[2] = 0 \/ ms[1] < 1000 * ms[2] THEN "a few seconds"
  ELSE LET totalSeconds == RoundDiv(ms[1], 1000 * ms[2])
           minutes == totalSeconds \div 60
           seconds == totalSeconds % 60
       IN IF minutes > 0
          THEN "about " \o ToString(minutes) \o " minute" \o (IF minutes > 1 THEN "s" ELSE "")
               \o (IF seconds > 10 THEN " and " \o ToString(seconds) \o " seconds" ELSE "")
          ELSE "about " \o ToString(seconds) \o " second" \o (IF seconds > 1 THEN "s" ELSE "")

(* ------------------------------- state --------------------------------- *)
VARIABLES
  \* React state of App
  appState, files, suggestedHeaders, orderedHeaders, extractedData, error, progress,
  processedFileCount, extractionStartTime, estimatedTimeRemaining, smoothedEtaRef,
  failedItems, isRetrying,
  \* locals of the handleExtract / handleRetryFailed call in progress
  runKind,            \* "none", "extract" or "retry"
  closureStartTime,   \* extractionStartTime as captured by the handler's closure
  closureFailedItems, \* failedItems as captured by handleRetryFailed's closure
  fileQueue, results, extractionErrors, runFailedItems,
  wpc, witem,         \* per worker: "exited", "reading" or "calling", and its item
  \* the clock read by Date.now()
  now, ticks,
  \* history of the call in progress
  calls,              \* extractInfoFromSingleFile calls issued
  callsOf,            \* per index: extractInfoFromSingleFile calls issued for it
  readFailed,         \* indices whose fileToGenerativePart rejected
  attempted,          \* indices taken from fileQueue, in order
  outcome,            \* per index: "none", "ok" or "failed" in this call
  etaPublished,       \* the latest completion called setEstimatedTimeRemaining
  completions,        \* completions of this call
  retryBase,          \* extractedData when handleRetryFailed was called
  firstDone,          \* index of the item that completed first, -1 before
  envFailed,          \* an await rejected or the service answered no object
  uncaught,           \* an exception escaped the handler
  \* state of the HeaderConfiguration component (followed in SpecHeaders; the
  \* other specifications draw the confirmed list from HeaderLists directly)
  allHeaders, selectedHeaders,
  configOrdered,      \* the component's own orderedHeaders
  dragItem, dragOverItem,   \* the refs, -1 for null
  dragging            \* a drag of a list item is in progress

appVars == <<appState, files, suggestedHeaders, orderedHeaders, extractedData, error, progress,
             processedFileCount, extractionStartTime, estimatedTimeRemaining, smoothedEtaRef,
             failedItems, isRetrying>>
runVars == <<runKind, closureStartTime, closureFailedItems, fileQueue, results, extractionErrors, runFailedItems,
             wpc, witem>>
clockVars == <<now, ticks>>
histVars == <<calls, callsOf, readFailed, attempted, outcome, etaPublished, completions,
              retryBase, firstDone, envFailed, uncaught>>
cfgVars == <<allHeaders, selectedHeaders, configOrdered, dragItem, dragOverItem, dragging>>
vars == <<appVars, runVars, clockVars, histVars, cfgVars>>

\* HeaderConfiguration is not on screen: its state as constructed
CfgUnmounted ==
  /\ allHeaders = <<>>
  /\ selectedHeaders = <<>>
  /\ configOrdered = <<>>
  /\ dragItem = -1
  /\ dragOverItem = -1
  /\ dragging = FALSE

\* extractedData is null (<<>>) or an array of rows (<<rows>>)
NullData == <<>>
Data(rows) == <<rows>>
\* extractedData || []
Rows(d) == IF d = NullData THEN <<>> ELSE d[1]

NoWorkers == [w \in Workers |-> "exited"]
NoItems == [w \in Workers |-> NoItem]

Init ==
  /\ CfgUnmounted
  /\ appState = "file_upload"
  /\ files = <<>>
  /\ suggestedHeaders = <<>>
  /\ orderedHeaders = <<>>
  /\ extractedData = NullData
  /\ error = JNULL
  /\ progress = 0
  /\ processedFileCount = 0
  /\ extractionStartTime = 0
  /\ estimatedTimeRemaining = JNULL
  /\ smoothedEtaRef = NullEta
  /\ failedItems = <<>>
  /\ isRetrying = FALSE
  /\ runKind = "none"
  /\ closureStartTime = 0
  /\ closureFailedItems = <<>>
  /\ fileQueue = <<>>
  /\ results = <<>>
  /\ extractionErrors = <<>>
  /\ runFailedItems = <<>>
  /\ wpc = NoWorkers
  /\ witem = NoItems
  /\ now = ClockStart
  /\ ticks = 0
  /\ calls = 0
  /\ callsOf = <<>>
  /\ readFailed = {}
  /\ attempted = <<>>
  /\ outcome = <<>>
  /\ etaPublished = FALSE
  /\ completions = 0
  /\ retryBase = NullData
  /\ firstDone = -1
  /\ envFailed = FALSE
  /\ uncaught = FALSE

(* ------------------------- before the extraction ----------------------- *)
\* one more document is dropped on the upload area
handleFilesChange ==
  /\ UNCHANGED cfgVars
  /\ appState \in {"file_upload", "identifying_headers"}
  /\ Len(files) < MaxFiles
  /\ files' = files \o <<FilePool[Len(files) + 1]>>
  /\ error' = JNULL
  /\ UNCHANGED <<appState, suggestedHeaders, orderedHeaders, extractedData, progress,
                 processedFileCount, extractionStartTime, estimatedTimeRemaining,
                 smoothedEtaRef, failedItems, isRetrying>>
  /\ UNCHANGED <<runVars, clockVars, histVars>>

\* the Identify Headers button (disabled while there is no file)
handleIdentifyHeaders ==
  /\ UNCHANGED cfgVars
  /\ appState = "file_upload"
  /\ Len(files) > 0
  /\ error' = JNULL
  /\ appState' = "identifying_headers"
  /\ progress' = 0
  /\ UNCHANGED <<files, suggestedHeaders, orderedHeaders, extractedData,
                 processedFileCount, extractionStartTime, estimatedTimeRemaining,
                 smoothedEtaRef, failedItems, isRetrying>>
  /\ UNCHANGED <<runVars, clockVars, histVars>>

\* identifyHeadersFromFiles resolved with headers
IdentifyResolved(headers) ==
  /\ UNCHANGED cfgVars
  /\ appState = "identifying_headers"
  /\ progress' = 100
  /\ suggestedHeaders' = Dedupe(<<SNO, DOCNAME>> \o headers)
  /\ appState' = "header_selection"
  /\ UNCHANGED <<files, orderedHeaders, extractedData, error,
                 processedFileCount, extractionStartTime, estimatedTimeRemaining,
                 smoothedEtaRef, failedItems, isRetrying>>
  /\ UNCHANGED <<runVars, clockVars, histVars>>

\* variant: the failure leaves no message
IdentifyErrorsSilent(stage) == {JNULL}
\* err.message || 'Failed to identify headers.': a read rejects with an Error
\* or with the reader's error event (which has no message), the service with
\* its own Error
IdentifyErrors(stage) ==
  IF stage = 75
    THEN {"Failed to communicate with the AI."}
    ELSE {"Failed to read file and extract base64 data.", "Failed to identify headers."}

\* a file read (stage 0) or identifyHeadersFromFiles (stage 75) rejected
IdentifyRejected(stage) ==
  /\ UNCHANGED cfgVars
  /\ appState = "identifying_headers"
  /\ progress' = stage
  /\ error' \in IdentifyErrors(stage)
  /\ appState' = "file_upload"
  /\ UNCHANGED <<files, suggestedHeaders, orderedHeaders, extractedData,
                 processedFileCount, extractionStartTime, estimatedTimeRemaining,
                 smoothedEtaRef, failedItems, isRetrying>>
  /\ UNCHANGED <<runVars, clockVars, histVars>>

\* Confirm Headers & Continue (disabled while no header is selected)
handleHeaderConfirm(headers) ==
  /\ UNCHANGED cfgVars
  /\ appState = "header_selection"
  /\ headers # <<>>
  /\ Range(headers) \subseteq Range(suggestedHeaders)
  /\ orderedHeaders' = headers
  /\ appState' = "prompting"
  /\ UNCHANGED <<files, suggestedHeaders, extractedData, error, progress,
                 processedFileCount, extractionStartTime, estimatedTimeRemaining,
                 smoothedEtaRef, failedItems, isRetrying>>
  /\ UNCHANGED <<runVars, clockVars, histVars>>

handleHeaderCancel ==
  /\ UNCHANGED cfgVars
  /\ appState = "header_selection"
  /\ suggestedHeaders' = <<>>
  /\ appState' = "file_upload"
  /\ UNCHANGED <<files, orderedHeaders, extractedData, error, progress,
                 processedFileCount, extractionStartTime, estimatedTimeRemaining,
                 smoothedEtaRef, failedItems, isRetrying>>
  /\ UNCHANGED <<runVars, clockVars, histVars>>

\* time passes while an extraction is on screen
Tick ==
  /\ UNCHANGED cfgVars
  /\ appState \in {"extracting_data", "data_display"}
  /\ ticks < MaxTicks
  /\ now' = now + TickMs
  /\ ticks' = ticks + 1
  /\ UNCHANGED <<appVars, runVars, histVars>>

(* ----------------------------- extraction ------------------------------ *)
\* variant: only 'S.No' is filtered out
headersForAIKeepName(headers) == FilterSeq(headers, Range(headers) \ {SNO})
\* orderedHeaders.filter(h => h !== 'S.No' && h !== 'Document Name')
headersForAI(headers) == FilterSeq(headers, Range(headers) \ {SNO, DOCNAME})

\* What JSON.parse yields for a response of the extraction service to a request
\* for the keys hs of the document file: null, or an object holding some of the
\* keys, each with the document's value or with null.
Responses(file, hs) ==
  {NullSlot} \cup
  { ObjSlot([h \in present |-> IF h \in nulls THEN JNULL ELSE ValueOf(file, h)]) :
      <<present, nulls>> \in { pn \in (SUBSET Range(hs)) \X (SUBSET Range(hs)) : pn[2] \subseteq pn[1] } }

\* the answer that holds the document's value for every key asked for
FullResponse(file, hs) == ObjSlot([h \in Range(hs) |-> ValueOf(file, h)])

\* variant: every file is queued twice
QueueOfTwice(fs) ==
  [i \in 1..(2 * Len(fs)) |-> Item(fs[((i - 1) % Len(fs)) + 1], (i - 1) % Len(fs))]
\* files.map((file, index) => ({ file, index }))
QueueOf(fs) == [i \in 1..Len(fs) |-> Item(fs[i], i - 1)]

\* the metadata-only rows of handleExtract
metaData(fs, headers) ==
  [i \in 1..Len(fs) |->
     [h \in Range(headers) \cap {SNO, DOCNAME} |-> IF h = SNO THEN i ELSE fs[i]]]

\* variant: the catch block records the file name only
errorRowNameOnly(file, headers) == [h \in Range(headers) \cap {DOCNAME} |-> file]
\* the errorRow of handleExtract's catch block
errorRow(file, headers) ==
  [h \in Range(headers) \ {SNO} |-> IF h = DOCNAME THEN file ELSE FAILED]

\* rowData of a successful iteration of handleExtract: parsedResult with
\* 'Document Name' set when that header is selected
parsedRow(resp, file, headers) ==
  IF resp.kind = "null" THEN NullSlot
  ELSE ObjSlot([h \in (DOMAIN resp.row) \cup (Range(headers) \cap {DOCNAME}) |->
                  IF h = DOCNAME /\ DOCNAME \in Range(headers) THEN file ELSE resp.row[h]])

\* parsedResult['Document Name'] = file.name throws a TypeError on null
ExtractThrows(resp, headers) == resp.kind = "null" /\ DOCNAME \in Range(headers)

\* variant: the rows written so far, numbered by their position in the snapshot
liveTableDataDense(res, headers) ==
  LET written == FilterSeq([i \in 1..Len(res) |-> i],
                           {i \in 1..Len(res) : res[i].kind # "null"})
  IN [p \in 1..Len(written) |->
        [h \in Range(headers) \cup {SNO} |->
           IF h = SNO THEN p ELSE Get(res[written[p]].row, h)]]
\* variant: a live row has the selected headers as its keys and no other
liveTableDataSelected(res, headers) ==
  LET written == FilterSeq([i \in 1..Len(res) |-> i],
                           {i \in 1..Len(res) : res[i].kind # "null"})
  IN [p \in 1..Len(written) |->
        [h \in Range(headers) |->
           IF h = SNO THEN written[p] ELSE Get(res[written[p]].row, h)]]
\* variant: the rows written so far, from the last index to the first
liveTableDataReversed(res, headers) ==
  LET written == FilterSeq([i \in 1..Len(res) |-> Len(res) + 1 - i],
                           {i \in 1..Len(res) : res[i].kind # "null"})
  IN [p \in 1..Len(written) |->
        [h \in Range(headers) \cup {SNO} |->
           IF h = SNO THEN written[p] ELSE Get(res[written[p]].row, h)]]
\* liveTableData: the rows written so far, numbered by their index in results
liveTableData(res, headers) ==
  LET written == FilterSeq([i \in 1..Len(res) |-> i],
                           {i \in 1..Len(res) : res[i].kind # "null"})
  IN [p \in 1..Len(written) |->
        [h \in Range(headers) \cup {SNO} |->
           IF h = SNO THEN written[p] ELSE Get(res[written[p]].row, h)]]

\* finalData of handleExtract (defined when no slot of results is null)
finalData(res, headers) ==
  [i \in 1..Len(res) |->
     [h \in Range(headers) |-> IF h = SNO THEN i ELSE Coalesce(Get(res[i].row, h), NA)]]

\* variant: 'S.No' is the zero-based index
successfulRowZeroBased(resp, file, index, headers) ==
  [h \in Range(headers) |->
     IF h = SNO THEN index
     ELSE IF h = DOCNAME THEN file
     ELSE Coalesce(Get(resp.row, h), NA)]
\* successfulRow of handleRetryFailed
successfulRow(resp, file, index, headers) ==
  [h \in Range(headers) |->
     IF h = SNO THEN index + 1
     ELSE IF h = DOCNAME THEN file
     ELSE Coalesce(Get(resp.row, h), NA)]

\* parsedResult[header] throws a TypeError on null (there is a content header)
RetryThrows(resp, headers) == resp.kind = "null" /\ headersForAI(headers) # <<>>

\* variant: results.push(rowData), the first slot still empty is filled
WriteSlotAtArrival(res, index, rowData) ==
  LET free == {i \in 1..Len(res) : res[i].kind = "null"}
  IN IF free = {} THEN res
     ELSE [res EXCEPT ![CHOOSE i \in free : \A j \in free : i <= j] = rowData]
\* results[index] = rowData
WriteSlot(res, index, rowData) == [res EXCEPT ![index + 1] = rowData]

\* variant: the retry starts from rows whose cells are blanked
RetryResultsReset(data) ==
  [i \in 1..Len(Rows(data)) |-> ObjSlot([h \in DOMAIN Rows(data)[i] |-> NA])]
\* const results = [...(extractedData || [])]
RetryResults(data) == [i \in 1..Len(Rows(data)) |-> ObjSlot(Rows(data)[i])]

\* variant: the retry queues every file again
RetryQueueAllFiles(failed) == QueueOf(files)
\* const fileQueue = [...failedItems]
RetryQueue(failed) == failed

\* variant: the failed list is not replaced
RemainingFailedKept(old, newFailedItems) == old
\* variant: the items that failed again are added to the failed list
RemainingFailedAppended(old, newFailedItems) == old \o newFailedItems
\* setFailedItems(newFailedItems) of handleRetryFailed
RemainingFailed(old, newFailedItems) == newFailedItems

\* variant: the workers take their items from the end of the queue (pop)
LaunchPop(queue) ==
  /\ wpc' = [w \in Workers |-> IF w <= Len(queue) THEN "reading" ELSE "exited"]
  /\ witem' = [w \in Workers |-> IF w <= Len(queue) THEN queue[Len(queue) + 1 - w] ELSE NoItem]
  /\ fileQueue' = SubSeq(queue, 1, Len(queue) - CONCURRENCY_LIMIT)
  /\ attempted' = [i \in 1..Min(CONCURRENCY_LIMIT, Len(queue)) |-> queue[Len(queue) + 1 - i].index]
\* variant: every worker reads the head of the queue before one removes it
LaunchPeek(queue) ==
  /\ wpc' = [w \in Workers |-> IF queue # <<>> THEN "reading" ELSE "exited"]
  /\ witem' = [w \in Workers |-> IF queue # <<>> THEN queue[1] ELSE NoItem]
  /\ fileQueue' = SubSeq(queue, 2, Len(queue))
  /\ attempted' = [w \in 1..(IF queue # <<>> THEN CONCURRENCY_LIMIT ELSE 0) |-> queue[1].index]
\* Array(CONCURRENCY_LIMIT).fill(0).map(worker): each worker runs up to its
\* first await, so worker w takes the w-th queue entry, if there is one
Launch(queue) ==
  /\ wpc' = [w \in Workers |-> IF w <= Len(queue) THEN "reading" ELSE "exited"]
  /\ witem' = [w \in Workers |-> IF w <= Len(queue) THEN queue[w] ELSE NoItem]
  /\ fileQueue' = SubSeq(queue, CONCURRENCY_LIMIT + 1, Len(queue))
  /\ attempted' = [i \in 1..Min(CONCURRENCY_LIMIT, Len(queue)) |-> queue[i].index]

\* while (fileQueue.length > 0) { const item = fileQueue.shift(); ...
\* await fileToGenerativePart(file)
TakeNext(w) ==
  IF fileQueue = <<>>
  THEN /\ wpc' = [wpc EXCEPT ![w] = "exited"]
       /\ witem' = [witem EXCEPT ![w] = NoItem]
       /\ UNCHANGED <<fileQueue, attempted>>
  ELSE /\ wpc' = [wpc EXCEPT ![w] = "reading"]
       /\ witem' = [witem EXCEPT ![w] = Head(fileQueue)]
       /\ fileQueue' = Tail(fileQueue)
       /\ attempted' = Append(attempted, Head(fileQueue).index)

\* variant: a worker that caught an error leaves its loop
ContinueUnlessCaught(w, caught) ==
  IF caught
  THEN /\ wpc' = [wpc EXCEPT ![w] = "exited"]
       /\ witem' = [witem EXCEPT ![w] = NoItem]
       /\ UNCHANGED <<fileQueue, attempted>>
  ELSE TakeNext(w)
\* the worker's loop goes on after an iteration, whether it caught or not
Continue(w, caught) == TakeNext(w)

\* variant: setProcessedFileCount(count + 1) with the count read when the call
\* began, so that every completion computes from 0
ProgressUpdateStale(total) ==
  /\ processedFileCount' = 1
  /\ UNCHANGED <<smoothedEtaRef, estimatedTimeRemaining>>
  /\ progress' = RoundDiv(100, total)
  /\ etaPublished' = FALSE
  /\ completions' = completions + 1
\* the updater passed to setProcessedFileCount, for a call over total items
ProgressUpdate(total) ==
  LET newCount == processedFileCount + 1
      elapsed == now - closureStartTime
      publish == closureStartTime # 0 /\ elapsed > 1000 /\ newCount > 1
      smoothed == Smooth(RawEtaMs(total, newCount, elapsed), smoothedEtaRef)
  IN /\ processedFileCount' = newCount
     /\ smoothedEtaRef' = IF publish THEN smoothed ELSE smoothedEtaRef
     /\ estimatedTimeRemaining' = IF publish THEN formatEta(smoothed) ELSE estimatedTimeRemaining
     /\ progress' = RoundDiv(newCount * 100, total)
     /\ etaPublished' = publish
     /\ completions' = completions + 1

\* variant: the header list is never found empty
HeadersMissingNever(headers) == FALSE
\* orderedHeaders.length === 0
HeadersMissing(headers) == Len(headers) = 0

\* the Create Table button
handleExtract ==
  /\ UNCHANGED cfgVars
  /\ appState = "prompting"
  /\ IF HeadersMissing(orderedHeaders)
     THEN /\ error' = "Please configure headers before extracting."
          /\ UNCHANGED <<appState, files, suggestedHeaders, orderedHeaders, extractedData,
                         progress, processedFileCount, extractionStartTime,
                         estimatedTimeRemaining, smoothedEtaRef, failedItems, isRetrying>>
          /\ UNCHANGED <<runVars, histVars>>
     ELSE /\ error' = JNULL
          /\ progress' = 0
          /\ processedFileCount' = 0
          /\ estimatedTimeRemaining' = JNULL
          /\ smoothedEtaRef' = NullEta
          /\ closureStartTime' = extractionStartTime
          /\ extractionStartTime' = now
          /\ failedItems' = <<>>
          /\ isRetrying' = FALSE
          /\ calls' = 0
          /\ callsOf' = [i \in 1..Len(files) |-> 0]
          /\ readFailed' = {}
          /\ etaPublished' = FALSE
          /\ completions' = 0
          /\ retryBase' = NullData
          /\ firstDone' = -1
          /\ envFailed' = FALSE
          /\ outcome' = [i \in 1..Len(files) |-> "none"]
          /\ UNCHANGED <<files, suggestedHeaders, orderedHeaders, closureFailedItems, uncaught>>
          /\ IF headersForAI(orderedHeaders) = <<>>
             THEN /\ extractedData' = Data(metaData(files, orderedHeaders))
                  /\ appState' = "data_display"
                  /\ attempted' = <<>>
                  /\ UNCHANGED <<runKind, fileQueue, results, extractionErrors,
                                 runFailedItems, wpc, witem>>
             ELSE /\ extractedData' = Data(<<>>)
                  /\ appState' = "extracting_data"
                  /\ runKind' = "extract"
                  /\ results' = [i \in 1..Len(files) |-> NullSlot]
                  /\ extractionErrors' = <<>>
                  /\ runFailedItems' = <<>>
                  /\ Launch(QueueOf(files))
  /\ UNCHANGED clockVars

\* the rest of one iteration of handleExtract's worker, from the point where
\* the awaited read or service call settled to the next await or the exit;
\* thrown: the await rejected, resp: what JSON.parse returned otherwise
ExtractIteration(w, thrown, resp) ==
  LET item == witem[w]
      caught == thrown \/ ExtractThrows(resp, orderedHeaders)
      rowData == IF caught THEN ObjSlot(errorRow(item.file, orderedHeaders))
                 ELSE parsedRow(resp, item.file, orderedHeaders)
      newResults == WriteSlot(results, item.index, rowData)
  IN /\ results' = newResults
     /\ UNCHANGED cfgVars
     /\ extractionErrors' = IF caught THEN Append(extractionErrors, item.file) ELSE extractionErrors
     /\ runFailedItems' = IF caught THEN Append(runFailedItems, item) ELSE runFailedItems
     /\ outcome' = [outcome EXCEPT ![item.index + 1] = IF caught THEN "failed" ELSE "ok"]
     /\ firstDone' = IF firstDone = -1 THEN item.index ELSE firstDone
     /\ envFailed' = (envFailed \/ thrown \/ resp.kind # "obj")
     /\ ProgressUpdate(Len(files))
     /\ extractedData' = Data(liveTableData(newResults, orderedHeaders))
     /\ Continue(w, caught)
     /\ UNCHANGED <<appState, files, suggestedHeaders, orderedHeaders, error,
                    extractionStartTime, failedItems, isRetrying>>
     /\ UNCHANGED <<runKind, closureStartTime, closureFailedItems, calls, retryBase, uncaught>>
     /\ UNCHANGED clockVars

\* variant: the handler resumes when the first worker has returned
AnyWorkerReturned == \E w \in Workers : wpc[w] = "exited"
\* await Promise.all(workers) has resolved: every worker has returned
AllWorkersReturned == \A w \in Workers : wpc[w] = "exited"

\* after await Promise.all(workers) in handleExtract
ExtractFinish ==
  /\ UNCHANGED cfgVars
  /\ runKind = "extract"
  /\ AllWorkersReturned
  /\ failedItems' = runFailedItems
  /\ error' = IF Len(extractionErrors) > 0
              THEN "Extraction completed with " \o ToString(Len(extractionErrors))
                   \o " error(s). Please review the results table."
              ELSE error
  /\ runKind' = "none"
  /\ IF \E i \in 1..Len(results) : results[i].kind = "null"
     THEN \* row[header] of a null row throws out of handleExtract
          /\ uncaught' = TRUE
          /\ UNCHANGED <<appState, extractedData, estimatedTimeRemaining>>
     ELSE /\ estimatedTimeRemaining' = JNULL
          /\ extractedData' = Data(finalData(results, orderedHeaders))
          /\ appState' = "data_display"
          /\ UNCHANGED uncaught
  /\ UNCHANGED <<files, suggestedHeaders, orderedHeaders, progress, processedFileCount,
                 extractionStartTime, smoothedEtaRef, isRetrying>>
  /\ UNCHANGED <<closureStartTime, closureFailedItems, fileQueue, results, extractionErrors,
                 runFailedItems, wpc, witem>>
  /\ UNCHANGED <<calls, callsOf, readFailed, attempted, outcome, etaPublished, completions,
                 retryBase, firstDone, envFailed>>
  /\ UNCHANGED clockVars

(* -------------------------------- retry -------------------------------- *)
\* the Retry Failed Documents button (shown while failedItems is not empty)
handleRetryFailed ==
  /\ UNCHANGED cfgVars
  /\ appState = "data_display"
  /\ failedItems # <<>>
  /\ appState' = "extracting_data"
  /\ error' = JNULL
  /\ progress' = 0
  /\ processedFileCount' = 0
  /\ estimatedTimeRemaining' = JNULL
  /\ smoothedEtaRef' = NullEta
  /\ closureStartTime' = extractionStartTime
  /\ extractionStartTime' = now
  /\ isRetrying' = TRUE
  /\ runKind' = "retry"
  /\ closureFailedItems' = failedItems
  /\ results' = RetryResults(extractedData)
  /\ runFailedItems' = <<>>
  /\ Launch(RetryQueue(failedItems))
  /\ calls' = 0
  /\ callsOf' = [i \in 1..Len(files) |-> 0]
  /\ readFailed' = {}
  /\ etaPublished' = FALSE
  /\ completions' = 0
  /\ retryBase' = extractedData
  /\ firstDone' = -1
  /\ envFailed' = FALSE
  /\ outcome' = [i \in 1..Len(files) |-> "none"]
  /\ UNCHANGED <<files, suggestedHeaders, orderedHeaders, extractedData, failedItems>>
  /\ UNCHANGED <<extractionErrors, uncaught>>
  /\ UNCHANGED clockVars

\* the rest of one iteration of handleRetryFailed's worker
RetryIteration(w, thrown, resp) ==
  LET item == witem[w]
      caught == thrown \/ RetryThrows(resp, orderedHeaders)
      newResults ==
        IF caught THEN results
        ELSE WriteSlot(results, item.index,
                       ObjSlot(successfulRow(resp, item.file, item.index, orderedHeaders)))
  IN /\ results' = newResults
     /\ UNCHANGED cfgVars
     /\ runFailedItems' = IF caught THEN Append(runFailedItems, item) ELSE runFailedItems
     /\ outcome' = [outcome EXCEPT ![item.index + 1] = IF caught THEN "failed" ELSE "ok"]
     /\ firstDone' = IF firstDone = -1 THEN item.index ELSE firstDone
     /\ envFailed' = (envFailed \/ thrown \/ resp.kind # "obj")
     /\ ProgressUpdate(Len(closureFailedItems))
     /\ extractedData' = Data([i \in 1..Len(newResults) |-> newResults[i].row])
     /\ Continue(w, caught)
     /\ UNCHANGED <<appState, files, suggestedHeaders, orderedHeaders, error,
                    extractionStartTime, failedItems, isRetrying>>
     /\ UNCHANGED <<runKind, closureStartTime, closureFailedItems, extractionErrors, calls,
                    retryBase, uncaught>>
     /\ UNCHANGED clockVars

\* after await Promise.all(workers) in handleRetryFailed
RetryFinish ==
  /\ UNCHANGED cfgVars
  /\ runKind = "retry"
  /\ AllWorkersReturned
  /\ failedItems' = RemainingFailed(failedItems, runFailedItems)
  /\ error' = IF Len(runFailedItems) > 0
              THEN "Extraction completed with " \o ToString(Len(runFailedItems))
                   \o " error(s) remaining."
              ELSE JNULL
  /\ estimatedTimeRemaining' = JNULL
  /\ appState' = "data_display"
  /\ runKind' = "none"
  /\ UNCHANGED <<files, suggestedHeaders, orderedHeaders, extractedData, progress,
                 processedFileCount, extractionStartTime, smoothedEtaRef, isRetrying>>
  /\ UNCHANGED <<closureStartTime, closureFailedItems, fileQueue, results, extractionErrors,
                 runFailedItems, wpc, witem>>
  /\ UNCHANGED histVars
  /\ UNCHANGED clockVars

(* ------------------------- the workers' awaits ------------------------- *)
Iteration(w, thrown, resp) ==
  IF runKind = "extract" THEN ExtractIteration(w, thrown, resp)
  ELSE RetryIteration(w, thrown, resp)

\* fileToGenerativePart resolved: the worker calls extractInfoFromSingleFile
ReadResolved(w) ==
  /\ UNCHANGED cfgVars
  /\ runKind \in {"extract", "retry"}
  /\ wpc[w] = "reading"
  /\ wpc' = [wpc EXCEPT ![w] = "calling"]
  /\ calls' = calls + 1
  /\ callsOf' = [callsOf EXCEPT ![witem[w].index + 1] = @ + 1]
  /\ UNCHANGED <<appVars, clockVars>>
  /\ UNCHANGED <<runKind, closureStartTime, closureFailedItems, fileQueue, results,
                 extractionErrors, runFailedItems, witem>>
  /\ UNCHANGED <<readFailed, attempted, outcome, etaPublished, completions, retryBase,
                 firstDone, envFailed, uncaught>>

\* fileToGenerativePart rejected
ReadRejected(w) ==
  /\ runKind \in {"extract", "retry"}
  /\ wpc[w] = "reading"
  /\ readFailed' = readFailed \cup {witem[w].index}
  /\ UNCHANGED callsOf
  /\ Iteration(w, TRUE, NullSlot)

\* extractInfoFromSingleFile resolved and JSON.parse returned resp
CallResolved(w, resp) ==
  /\ runKind \in {"extract", "retry"}
  /\ wpc[w] = "calling"
  /\ UNCHANGED <<callsOf, readFailed>>
  /\ Iteration(w, FALSE, resp)

\* extractInfoFromSingleFile rejected
CallRejected(w) ==
  /\ runKind \in {"extract", "retry"}
  /\ wpc[w] = "calling"
  /\ UNCHANGED <<callsOf, readFailed>>
  /\ Iteration(w, TRUE, NullSlot)

(* ------------------------------ start over ----------------------------- *)
handleStartOver ==
  /\ UNCHANGED cfgVars
  /\ appState = "data_display"
  /\ appState' = "file_upload"
  /\ files' = <<>>
  /\ extractedData' = NullData
  /\ error' = JNULL
  /\ suggestedHeaders' = <<>>
  /\ orderedHeaders' = <<>>
  /\ progress' = 0
  /\ processedFileCount' = 0
  /\ extractionStartTime' = 0
  /\ estimatedTimeRemaining' = JNULL
  /\ smoothedEtaRef' = NullEta
  /\ failedItems' = <<>>
  /\ isRetrying' = FALSE
  \* the finished call's locals are garbage, and the history starts afresh
  /\ runKind' = "none"
  /\ closureStartTime' = 0
  /\ closureFailedItems' = <<>>
  /\ fileQueue' = <<>>
  /\ results' = <<>>
  /\ extractionErrors' = <<>>
  /\ runFailedItems' = <<>>
  /\ wpc' = NoWorkers
  /\ witem' = NoItems
  /\ calls' = 0
  /\ callsOf' = <<>>
  /\ readFailed' = {}
  /\ attempted' = <<>>
  /\ outcome' = <<>>
  /\ etaPublished' = FALSE
  /\ completions' = 0
  /\ retryBase' = NullData
  /\ firstDone' = -1
  /\ envFailed' = FALSE
  /\ UNCHANGED <<uncaught, clockVars>>

(* --------------------------- the result panel -------------------------- *)
\* renderContentPanel, case 'data_display'
hasFailures == Len(failedItems) > 0
\* variant: there is a success as soon as there is a row
hasSuccessAnyRow == Len(Rows(extractedData)) > 0
\* (extractedData?.length ?? 0) > failedItems.length
hasSuccess == Len(Rows(extractedData)) > Len(failedItems)
title ==
  IF hasFailures /\ ~hasSuccess THEN "Extraction Failed"
  ELSE IF hasFailures THEN "Extraction Complete with Errors"
  ELSE "Extraction Complete!"
\* {failedItems.length > 0 && <button onClick={handleRetryFailed}>}
retryOffered == Len(failedItems) > 0

(* --------------------------- specifications ---------------------------- *)
\* the screens before the extraction, and Start New Extraction
NextScreens(suggestions, lists) ==
  \/ handleFilesChange
  \/ handleIdentifyHeaders
  \/ \E hs \in suggestions : IdentifyResolved(hs)
  \/ \E stage \in {0, 75} : IdentifyRejected(stage)
  \/ \E hs \in lists : handleHeaderConfirm(hs)
  \/ handleHeaderCancel
  \/ handleStartOver

\* the two handlers and everything that differs from a complete answer
NextCalls ==
  \/ handleExtract
  \/ \E w \in Workers : ReadResolved(w)
  \/ \E w \in Workers : ReadRejected(w)
  \/ \E w \in Workers : CallRejected(w)
  \/ ExtractFinish
  \/ handleRetryFailed
  \/ RetryFinish

\* Spec: every answer of the service, on a clock that stands still
Next ==
  \/ NextScreens(AIHeaderLists, HeaderLists)
  \/ NextCalls
  \/ \E w \in Workers :
       \E resp \in Responses(witem[w].file, headersForAI(orderedHeaders)) : CallResolved(w, resp)

Spec == Init /\ [][Next]_vars

\* SpecTime: complete answers only, on a clock that advances
NextTime ==
  \/ NextScreens({<<"Amount">>}, TimeHeaderLists)
  \/ NextCalls
  \/ \E w \in Workers :
       CallResolved(w, FullResponse(witem[w].file, headersForAI(orderedHeaders)))
  \/ Tick

SpecTime == Init /\ [][NextTime]_vars

\* SpecLive: the behaviours of Spec in which every pending read or service
\* call settles, and the code after await Promise.all runs once every worker
\* has returned (the event loop runs every continuation that is ready)
Settle(w) ==
  \/ ReadResolved(w)
  \/ ReadRejected(w)
  \/ CallRejected(w)
  \/ \E resp \in Responses(witem[w].file, headersForAI(orderedHeaders)) : CallResolved(w, resp)

SpecLive ==
  /\ Init /\ [][Next]_vars
  /\ \A w \in Workers : WF_vars(Settle(w))
  /\ WF_vars(ExtractFinish)
  /\ WF_vars(RetryFinish)

\* The same application with a batch larger than the worker pool: either
\* the batch is uploaded and its headers are confirmed, or its first
\* extraction has just ended with every document failed (what handleExtract
\* leaves when every file read rejects, in queue order).  Every answer of the
\* service is complete, the clock stands still, and at most MaxRejects awaits
\* reject in one call.
PoolHeaders == <<SNO, DOCNAME, "Amount">>
PoolBatch == SubSeq(FilePool, 1, PoolFiles)
PoolErrorRows == [i \in 1..PoolFiles |-> ObjSlot(errorRow(PoolBatch[i], PoolHeaders))]

PoolCommon ==
  /\ CfgUnmounted
  /\ files = PoolBatch
  /\ suggestedHeaders = PoolHeaders
  /\ orderedHeaders = PoolHeaders
  /\ isRetrying = FALSE
  /\ runKind = "none"
  /\ closureStartTime = 0
  /\ closureFailedItems = <<>>
  /\ fileQueue = <<>>
  /\ wpc = NoWorkers
  /\ witem = NoItems
  /\ estimatedTimeRemaining = JNULL
  /\ smoothedEtaRef = NullEta
  /\ now = ClockStart
  /\ ticks = 0
  /\ calls = 0
  /\ etaPublished = FALSE
  /\ retryBase = NullData
  /\ uncaught = FALSE

InitPoolFresh ==
  /\ PoolCommon
  /\ firstDone = -1
  /\ envFailed = FALSE
  /\ appState = "prompting"
  /\ extractedData = NullData
  /\ error = JNULL
  /\ progress = 100
  /\ processedFileCount = 0
  /\ extractionStartTime = 0
  /\ failedItems = <<>>
  /\ results = <<>>
  /\ extractionErrors = <<>>
  /\ runFailedItems = <<>>
  /\ callsOf = <<>>
  /\ readFailed = {}
  /\ attempted = <<>>
  /\ outcome = <<>>
  /\ completions = 0

InitPoolFailed ==
  /\ PoolCommon
  /\ firstDone = 0
  /\ envFailed = TRUE
  /\ appState = "data_display"
  /\ extractedData = Data(finalData(PoolErrorRows, PoolHeaders))
  /\ error = "Extraction completed with " \o ToString(PoolFiles)
             \o " error(s). Please review the results table."
  /\ progress = 100
  /\ processedFileCount = PoolFiles
  /\ extractionStartTime = ClockStart
  /\ failedItems = QueueOf(PoolBatch)
  /\ results = PoolErrorRows
  /\ extractionErrors = PoolBatch
  /\ runFailedItems = QueueOf(PoolBatch)
  /\ callsOf = [i \in 1..PoolFiles |-> 0]
  /\ readFailed = 0..(PoolFiles - 1)
  /\ attempted = [i \in 1..PoolFiles |-> i - 1]
  /\ outcome = [i \in 1..PoolFiles |-> "failed"]
  /\ completions = PoolFiles

InitPool == InitPoolFresh \/ InitPoolFailed

NextPool ==
  \/ handleExtract
  \/ \E w \in Workers : ReadResolved(w)
  \/ \E w \in Workers : Len(runFailedItems) < MaxRejects /\ ReadRejected(w)
  \/ \E w \in Workers :
       CallResolved(w, FullResponse(witem[w].file, headersForAI(orderedHeaders)))
  \/ \E w \in Workers : Len(runFailedItems) < MaxRejects /\ CallRejected(w)
  \/ ExtractFinish
  \/ handleRetryFailed
  \/ RetryFinish

SpecPool == InitPool /\ [][NextPool]_vars

\* Without the limit on rejections, the fresh batch reaches InitPoolFailed.
NextPoolAny ==
  \/ NextPool
  \/ \E w \in Workers : ReadRejected(w)
  \/ \E w \in Workers : CallRejected(w)

SpecPoolFresh == InitPoolFresh /\ [][NextPoolAny]_vars
PoolFailedNotReached == ~InitPoolFailed

\* handleExtract as a function of the header list: the prompt screen with one
\* to MaxFiles files uploaded and any header list in orderedHeaders, the empty
\* list included.  (The configuration screen disables its confirm button while
\* no header is selected, so the application itself never passes the empty
\* list; the guard at the head of handleExtract is what is exercised here.)
GuardHeaderLists == HeaderLists \cup {<<>>}

InitGuard ==
  /\ CfgUnmounted
  /\ \E n \in 1..MaxFiles : files = SubSeq(FilePool, 1, n)
  /\ orderedHeaders \in GuardHeaderLists
  /\ suggestedHeaders = <<SNO, DOCNAME, "Amount", "Date">>
  /\ appState = "prompting"
  /\ extractedData = NullData
  /\ error = JNULL
  /\ progress = 100
  /\ processedFileCount = 0
  /\ extractionStartTime = 0
  /\ estimatedTimeRemaining = JNULL
  /\ smoothedEtaRef = NullEta
  /\ failedItems = <<>>
  /\ isRetrying = FALSE
  /\ runKind = "none"
  /\ closureStartTime = 0
  /\ closureFailedItems = <<>>
  /\ fileQueue = <<>>
  /\ results = <<>>
  /\ extractionErrors = <<>>
  /\ runFailedItems = <<>>
  /\ wpc = NoWorkers
  /\ witem = NoItems
  /\ now = ClockStart
  /\ ticks = 0
  /\ calls = 0
  /\ callsOf = <<>>
  /\ readFailed = {}
  /\ attempted = <<>>
  /\ outcome = <<>>
  /\ etaPublished = FALSE
  /\ completions = 0
  /\ retryBase = NullData
  /\ firstDone = -1
  /\ envFailed = FALSE
  /\ uncaught = FALSE

NextGuard ==
  \/ NextCalls
  \/ \E w \in Workers :
       \E resp \in Responses(witem[w].file, headersForAI(orderedHeaders)) : CallResolved(w, resp)

SpecGuard == InitGuard /\ [][NextGuard]_vars

\* The retries of a batch of EtaFiles files, on a clock that advances: the
\* first extraction has just ended with every document failed (what
\* handleExtract leaves when every file read rejects, in queue order, before
\* the clock has advanced); in the retries a file read may reject again and
\* every answer of the service is complete.
EtaHeaders == <<"Amount">>
EtaBatch == SubSeq(FilePool, 1, EtaFiles)
EtaErrorRows == [i \in 1..EtaFiles |-> ObjSlot(errorRow(EtaBatch[i], EtaHeaders))]

InitEta ==
  /\ CfgUnmounted
  /\ files = EtaBatch
  /\ orderedHeaders = EtaHeaders
  /\ suggestedHeaders = <<SNO, DOCNAME, "Amount">>
  /\ appState = "data_display"
  /\ extractedData = Data(finalData(EtaErrorRows, EtaHeaders))
  /\ error = "Extraction completed with " \o ToString(EtaFiles)
             \o " error(s). Please review the results table."
  /\ progress = 100
  /\ processedFileCount = EtaFiles
  /\ extractionStartTime = ClockStart
  /\ estimatedTimeRemaining = JNULL
  /\ smoothedEtaRef = NullEta
  /\ failedItems = QueueOf(EtaBatch)
  /\ isRetrying = FALSE
  /\ runKind = "none"
  /\ closureStartTime = 0
  /\ closureFailedItems = <<>>
  /\ fileQueue = <<>>
  /\ results = EtaErrorRows
  /\ extractionErrors = EtaBatch
  /\ runFailedItems = QueueOf(EtaBatch)
  /\ wpc = NoWorkers
  /\ witem = NoItems
  /\ now = ClockStart
  /\ ticks = 0
  /\ calls = 0
  /\ callsOf = [i \in 1..EtaFiles |-> 0]
  /\ readFailed = 0..(EtaFiles - 1)
  /\ attempted = [i \in 1..EtaFiles |-> i - 1]
  /\ outcome = [i \in 1..EtaFiles |-> "failed"]
  /\ etaPublished = FALSE
  /\ completions = EtaFiles
  /\ retryBase = NullData
  /\ firstDone = 0
  /\ envFailed = TRUE
  /\ uncaught = FALSE

NextEta ==
  \/ handleRetryFailed
  \/ \E w \in Workers : ReadResolved(w)
  \/ \E w \in Workers : ReadRejected(w)
  \/ \E w \in Workers :
       CallResolved(w, FullResponse(witem[w].file, headersForAI(orderedHeaders)))
  \/ RetryFinish
  \/ Tick

SpecEta == InitEta /\ [][NextEta]_vars

\* From the prompt screen with the same batch and header, the extraction
\* reaches InitEta.
InitEtaFresh ==
  /\ CfgUnmounted
  /\ files = EtaBatch
  /\ orderedHeaders = EtaHeaders
  /\ suggestedHeaders = <<SNO, DOCNAME, "Amount">>
  /\ appState = "prompting"
  /\ extractedData = NullData
  /\ error = JNULL
  /\ progress = 100
  /\ processedFileCount = 0
  /\ extractionStartTime = 0
  /\ estimatedTimeRemaining = JNULL
  /\ smoothedEtaRef = NullEta
  /\ failedItems = <<>>
  /\ isRetrying = FALSE
  /\ runKind = "none"
  /\ closureStartTime = 0
  /\ closureFailedItems = <<>>
  /\ fileQueue = <<>>
  /\ results = <<>>
  /\ extractionErrors = <<>>
  /\ runFailedItems = <<>>
  /\ wpc = NoWorkers
  /\ witem = NoItems
  /\ now = ClockStart
  /\ ticks = 0
  /\ calls = 0
  /\ callsOf = <<>>
  /\ readFailed = {}
  /\ attempted = <<>>
  /\ outcome = <<>>
  /\ etaPublished = FALSE
  /\ completions = 0
  /\ retryBase = NullData
  /\ firstDone = -1
  /\ envFailed = FALSE
  /\ uncaught = FALSE

NextEtaAny ==
  \/ NextEta
  \/ handleExtract
  \/ ExtractFinish

SpecEtaFresh == InitEtaFresh /\ [][NextEtaAny]_vars
EtaFailedNotReached == ~InitEta

\* formatEta as a function of the duration: smoothedEtaRef.current holds any
\* of the sample durations or a non-finite number, and the one step is
\* setEstimatedTimeRemaining(formatEta(smoothedEtaRef.current)).
FormatInputs ==
  { <<k * FormatStepMs - d, 1>> : k \in (-10)..(FormatSamples - 11), d \in {0, 1} }
    \cup { <<0, 0>>, <<1, 0>>, <<-1, 0>> }

InitFormat ==
  /\ CfgUnmounted
  /\ smoothedEtaRef \in FormatInputs
  /\ estimatedTimeRemaining = JNULL
  /\ appState = "file_upload"
  /\ files = <<>>
  /\ suggestedHeaders = <<>>
  /\ orderedHeaders = <<>>
  /\ extractedData = NullData
  /\ error = JNULL
  /\ progress = 0
  /\ processedFileCount = 0
  /\ extractionStartTime = 0
  /\ failedItems = <<>>
  /\ isRetrying = FALSE
  /\ runKind = "none"
  /\ closureStartTime = 0
  /\ closureFailedItems = <<>>
  /\ fileQueue = <<>>
  /\ results = <<>>
  /\ extractionErrors = <<>>
  /\ runFailedItems = <<>>
  /\ wpc = NoWorkers
  /\ witem = NoItems
  /\ now = ClockStart
  /\ ticks = 0
  /\ calls = 0
  /\ callsOf = <<>>
  /\ readFailed = {}
  /\ attempted = <<>>
  /\ outcome = <<>>
  /\ etaPublished = FALSE
  /\ completions = 0
  /\ retryBase = NullData
  /\ firstDone = -1
  /\ envFailed = FALSE
  /\ uncaught = FALSE

\* setEstimatedTimeRemaining(formatEta(smoothedEtaRef.current))
PublishEta ==
  /\ UNCHANGED cfgVars
  /\ estimatedTimeRemaining = JNULL
  /\ estimatedTimeRemaining' = formatEta(smoothedEtaRef)
  /\ etaPublished' = TRUE
  /\ UNCHANGED <<appState, files, suggestedHeaders, orderedHeaders, extractedData, error,
                 progress, processedFileCount, extractionStartTime, smoothedEtaRef,
                 failedItems, isRetrying>>
  /\ UNCHANGED <<runVars, clockVars>>
  /\ UNCHANGED <<calls, callsOf, readFailed, attempted, outcome, completions, retryBase,
                 firstDone, envFailed, uncaught>>

NextFormat == PublishEta

SpecFormat == InitFormat /\ [][NextFormat]_vars

(* ----------------------- the header configuration ---------------------- *)
\* HeaderConfiguration (the variant with manually added headers) from the
\* moment it is mounted with the suggested headers to the confirmation.

\* the pieces of manualHeaderInput between its commas
ManualPieces == {"Total", " Amount ", ""}
\* the typed inputs, as manualHeaderInput.split(',')
ManualInputs == UNION { [1..n -> ManualPieces] : n \in 1..MaxPieces }

\* h.trim()
Trim(h) == IF h = " Amount " THEN "Amount" ELSE h
\* s.map(h => h.trim())
TrimAll(s) == [i \in 1..Len(s) |-> Trim(s[i])]
\* manualHeaderInput.trim() is empty: a single blank piece
BlankInput(pieces) == Len(pieces) = 1 /\ Trim(pieces[1]) = ""
\* [...new Set(manualHeaderInput.split(',').map(h => h.trim()).filter(Boolean))]
NewHeaders(pieces) ==
  LET trimmed == TrimAll(pieces)
  IN Dedupe(FilterSeq(trimmed, Range(trimmed) \ {""}))

\* selectedHeaders[h] is truthy
Selected(h) == h \in DOMAIN selectedHeaders /\ selectedHeaders[h]
\* { ...obj, [h]: v }
SetKey(obj, h, v) == [k \in DOMAIN obj \cup {h} |-> IF k = h THEN v ELSE obj[k]]
\* headers.reduce((acc, header) => ({ ...acc, [header]: v }), {})
AllKeys(headers, v) == [k \in Range(headers) |-> v]

\* variant: the unchecked header stays in the list
WithoutHeaderKept(prev, header) == prev
\* prev.filter(h => h !== header)
WithoutHeader(prev, header) == FilterSeq(prev, Range(prev) \ {header})

\* list[index] for a zero-based index
At(list, index) == IF index \in 0..(Len(list) - 1) THEN list[index + 1] ELSE UNDEFINED
\* list.splice(index, 1)
SpliceOut(list, index) ==
  IF index \in 0..(Len(list) - 1)
    THEN SubSeq(list, 1, index) \o SubSeq(list, index + 2, Len(list))
    ELSE list
\* list.splice(index, 0, content)
SpliceIn(list, index, content) ==
  LET at == Min(index, Len(list))
  IN SubSeq(list, 1, at) \o <<content>> \o SubSeq(list, at + 1, Len(list))

\* everything outside the component
restVars == <<appVars, runVars, clockVars, histVars>>

\* a checkbox of the available headers is toggled
handleCheckboxChange(header) ==
  /\ appState = "header_selection"
  /\ ~dragging
  /\ header \in Range(allHeaders)
  /\ LET isChecked == ~Selected(header)
     IN /\ selectedHeaders' = SetKey(selectedHeaders, header, isChecked)
        /\ configOrdered' = IF isChecked THEN Append(configOrdered, header)
                                         ELSE WithoutHeader(configOrdered, header)
  /\ UNCHANGED <<allHeaders, dragItem, dragOverItem, dragging>>
  /\ UNCHANGED restVars

\* the remove button of an item of the ordered list
handleRemoveHeader(headerToRemove) ==
  /\ headerToRemove \in Range(configOrdered)
  /\ handleCheckboxChange(headerToRemove)

\* the Add button (or Enter) with manualHeaderInput = pieces joined by commas
handleAddManualHeaders(pieces) ==
  /\ appState = "header_selection"
  /\ ~dragging
  /\ UNCHANGED <<dragItem, dragOverItem, dragging>>
  /\ UNCHANGED restVars
  /\ IF BlankInput(pieces) \/ NewHeaders(pieces) = <<>>
       THEN UNCHANGED <<allHeaders, selectedHeaders, configOrdered>>
       ELSE LET newHeaders == NewHeaders(pieces)
                completelyNewHeaders ==
                  FilterSeq(newHeaders, Range(newHeaders) \ Range(allHeaders))
                headersToSelect ==
                  FilterSeq(newHeaders, {h \in Range(newHeaders) : ~Selected(h)})
                headersToAdd ==
                  FilterSeq(headersToSelect, Range(headersToSelect) \ Range(configOrdered))
            IN /\ allHeaders' = allHeaders \o completelyNewHeaders
               /\ IF headersToSelect # <<>>
                    THEN /\ selectedHeaders' =
                              [k \in DOMAIN selectedHeaders \cup Range(headersToSelect) |->
                                 IF k \in Range(headersToSelect) THEN TRUE
                                                                 ELSE selectedHeaders[k]]
                         /\ configOrdered' = configOrdered \o headersToAdd
                    ELSE UNCHANGED <<selectedHeaders, configOrdered>>

\* an item of the ordered list starts to be dragged
handleDragStart(index) ==
  /\ appState = "header_selection"
  /\ ~dragging
  /\ index \in 0..(Len(configOrdered) - 1)
  /\ dragItem' = index
  /\ dragging' = TRUE
  /\ UNCHANGED <<allHeaders, selectedHeaders, configOrdered, dragOverItem>>
  /\ UNCHANGED restVars

\* the dragged item enters an item of the ordered list
handleDragEnter(index) ==
  /\ appState = "header_selection"
  /\ dragging
  /\ index \in 0..(Len(configOrdered) - 1)
  /\ dragOverItem' = index
  /\ UNCHANGED <<allHeaders, selectedHeaders, configOrdered, dragItem, dragging>>
  /\ UNCHANGED restVars

\* the drag ends: onDrop of the list and onDragEnd of the item both call
\* handleDrop, and the second call finds the refs null
handleDrop ==
  /\ appState = "header_selection"
  /\ dragging
  /\ dragging' = FALSE
  /\ IF dragItem = -1 \/ dragOverItem = -1
       THEN UNCHANGED <<configOrdered, dragItem, dragOverItem>>
       ELSE LET dragItemContent == At(configOrdered, dragItem)
            IN /\ configOrdered' =
                    SpliceIn(SpliceOut(configOrdered, dragItem), dragOverItem, dragItemContent)
               /\ dragItem' = -1
               /\ dragOverItem' = -1
  /\ UNCHANGED <<allHeaders, selectedHeaders>>
  /\ UNCHANGED restVars

handleSelectAll ==
  /\ appState = "header_selection"
  /\ ~dragging
  /\ selectedHeaders' = AllKeys(allHeaders, TRUE)
  /\ configOrdered' = allHeaders
  /\ UNCHANGED <<allHeaders, dragItem, dragOverItem, dragging>>
  /\ UNCHANGED restVars

handleDeselectAll ==
  /\ appState = "header_selection"
  /\ ~dragging
  /\ selectedHeaders' = AllKeys(allHeaders, FALSE)
  /\ configOrdered' = <<>>
  /\ UNCHANGED <<allHeaders, dragItem, dragOverItem, dragging>>
  /\ UNCHANGED restVars

\* Confirm Headers & Continue (disabled while the ordered list is empty):
\* onConfirm(orderedHeaders), which is the App's handleHeaderConfirm.  The
\* component leaves the screen and its state is not read again.
ConfirmClick ==
  /\ appState = "header_selection"
  /\ ~dragging
  /\ Len(configOrdered) # 0
  /\ orderedHeaders' = configOrdered
  /\ appState' = "prompting"
  /\ UNCHANGED cfgVars
  /\ UNCHANGED <<files, suggestedHeaders, extractedData, error, progress,
                 processedFileCount, extractionStartTime, estimatedTimeRemaining,
                 smoothedEtaRef, failedItems, isRetrying>>
  /\ UNCHANGED <<runVars, clockVars, histVars>>

\* the header selection screen right after the headers were identified: the
\* component's effect has run on the suggested headers
InitHeaders ==
  /\ appState = "header_selection"
  /\ files = <<FilePool[1]>>
  /\ suggestedHeaders \in { Dedupe(<<SNO, DOCNAME>> \o headers) : headers \in AIHeaderLists }
  /\ allHeaders = Dedupe(suggestedHeaders)
  /\ selectedHeaders = AllKeys(allHeaders, TRUE)
  /\ configOrdered = allHeaders
  /\ dragItem = -1
  /\ dragOverItem = -1
  /\ dragging = FALSE
  /\ orderedHeaders = <<>>
  /\ extractedData = NullData
  /\ error = JNULL
  /\ progress = 100
  /\ processedFileCount = 0
  /\ extractionStartTime = 0
  /\ estimatedTimeRemaining = JNULL
  /\ smoothedEtaRef = NullEta
  /\ failedItems = <<>>
  /\ isRetrying = FALSE
  /\ runKind = "none"
  /\ closureStartTime = 0
  /\ closureFailedItems = <<>>
  /\ fileQueue = <<>>
  /\ results = <<>>
  /\ extractionErrors = <<>>
  /\ runFailedItems = <<>>
  /\ wpc = NoWorkers
  /\ witem = NoItems
  /\ now = ClockStart
  /\ ticks = 0
  /\ calls = 0
  /\ callsOf = <<>>
  /\ readFailed = {}
  /\ attempted = <<>>
  /\ outcome = <<>>
  /\ etaPublished = FALSE
  /\ completions = 0
  /\ retryBase = NullData
  /\ firstDone = -1
  /\ envFailed = FALSE
  /\ uncaught = FALSE

NextHeaders ==
  \/ \E header \in Range(configOrdered) : handleRemoveHeader(header)
  \/ \E header \in Range(allHeaders) : handleCheckboxChange(header)
  \/ \E pieces \in ManualInputs : handleAddManualHeaders(pieces)
  \/ \E index \in 0..(Len(configOrdered) - 1) : handleDragStart(index)
  \/ \E index \in 0..(Len(configOrdered) - 1) : handleDragEnter(index)
  \/ handleDrop
  \/ handleSelectAll
  \/ handleDeselectAll
  \/ ConfirmClick

SpecHeaders == InitHeaders /\ [][NextHeaders]_vars

(* ============================== claims ================================= *)
CurrentRows == Rows(extractedData)
ContentHeaders == Range(orderedHeaders) \ {"S.No", "Document Name"}
\* a call of handleExtract has ended normally and no retry has followed it
ExtractDone == appState = "data_display" /\ retryBase = NullData
\* a call of handleRetryFailed has ended
RetryDone == appState = "data_display" /\ retryBase # NullData
\* a call of handleRetryFailed is running or has ended
InRetry == runKind = "retry" \/ RetryDone
\* the row holds the failure marker in every content header
HasMarker(row) == \A h \in ContentHeaders : row[h] = "--- EXTRACTION FAILED ---"
\* items taken from the queue and not yet completed
Outstanding == Len(attempted) - completions
IndicesOf(items) == {items[i].index : i \in 1..Len(items)}

\* C1: when handleExtract has finished there are exactly N rows, and the row at
\* position k is the result for the file at input index k: it carries that
\* file's name, and its content cells are that file's values (or N/A), or the
\* failure marker exactly when that file's extraction failed.
RowIsOfFile(row, k) ==
  /\ "Document Name" \in Range(orderedHeaders) => row["Document Name"] = files[k]
  /\ \A h \in ContentHeaders :
       IF outcome[k] = "failed" THEN row[h] = "--- EXTRACTION FAILED ---"
       ELSE row[h] \in {ValueOf(files[k], h), "N/A"}
C1_IndexStability ==
  ExtractDone =>
    /\ Len(CurrentRows) = Len(files)
    /\ \A k \in 1..Len(files) : RowIsOfFile(CurrentRows[k], k)
\* two files, the second completed first, the first failed and the second succeeded
C1_Witness ==
  /\ ExtractDone
  /\ Len(files) = 2
  /\ firstDone = 1
  /\ outcome = <<"failed", "ok">>
  /\ ContentHeaders # {}

\* C2: with 'S.No' selected, after a full run and after any retries the row at
\* 0-based position i has S.No = i+1, whichever files failed.
C2_DenseSNo ==
  (appState = "data_display" /\ "S.No" \in Range(orderedHeaders)) =>
    \A i \in 1..Len(CurrentRows) : CurrentRows[i]["S.No"] = i
\* after a retry of two failed files in which one succeeded and one failed again
C2_Witness ==
  /\ RetryDone
  /\ "S.No" \in Range(orderedHeaders)
  /\ Len(closureFailedItems) = 2
  /\ Len(failedItems) = 1
  /\ \E i \in 1..Len(files) : outcome[i] = "ok"

\* C3: throughout a retry and at its end, every row whose index is not in the
\* failedItems the retry started with equals the row before the retry.
C3_RetryFrame ==
  InRetry =>
    /\ Len(CurrentRows) = Len(Rows(retryBase))
    /\ \A i \in 1..Len(Rows(retryBase)) :
         (i - 1) \notin IndicesOf(closureFailedItems) =>
           /\ CurrentRows[i] = Rows(retryBase)[i]
           /\ results[i] = ObjSlot(Rows(retryBase)[i])
\* a retry that has already replaced a row while another index was never failed
C3_Witness ==
  /\ runKind = "retry"
  /\ completions >= 1
  /\ CurrentRows # Rows(retryBase)
  /\ \E i \in 1..Len(files) : (i - 1) \notin IndicesOf(closureFailedItems)

\* C4: in a retry only items of the failedItems it started with are taken,
\* read and sent to the service; a file whose row was a success is not.
C4_RetryOnlyFailed ==
  InRetry =>
    /\ \A j \in 1..Len(attempted) :
         /\ attempted[j] \in IndicesOf(closureFailedItems)
         /\ HasMarker(Rows(retryBase)[attempted[j] + 1])
    /\ \A w \in Workers : wpc[w] # "exited" => witem[w] \in Range(closureFailedItems)
    /\ Len(attempted) <= Len(closureFailedItems)
    /\ calls <= Len(closureFailedItems)
\* a retry has called the service while one file of the batch had succeeded before
C4_Witness ==
  /\ runKind = "retry"
  /\ calls >= 1
  /\ Len(closureFailedItems) < Len(files)

\* C5: with only 'S.No' / 'Document Name' selected, handleExtract calls the
\* service for no file, builds one row per file from position and file name,
\* leaves failedItems empty and ends in 'data_display'.
MetaOnly == orderedHeaders # <<>> /\ Range(orderedHeaders) \subseteq {"S.No", "Document Name"}
C5_MetadataOnly ==
  (MetaOnly /\ appState # "prompting") =>
    /\ appState = "data_display"
    /\ runKind = "none"
    /\ \A w \in Workers : wpc[w] = "exited"
    /\ calls = 0
    /\ attempted = <<>>
    /\ failedItems = <<>>
    /\ CurrentRows = [i \in 1..Len(files) |->
                        [h \in Range(orderedHeaders) |-> IF h = "S.No" THEN i ELSE files[i]]]
C5_Witness ==
  /\ MetaOnly
  /\ appState = "data_display"
  /\ Len(files) = 2
  /\ orderedHeaders = <<"S.No", "Document Name">>

\* C6: at every point of a run or retry at most 5 extraction attempts (read
\* plus service call) are outstanding, and they are the busy workers' items.
C6_ConcurrencyBound ==
  /\ Outstanding <= 5
  /\ Cardinality({w \in DOMAIN wpc : wpc[w] # "exited"}) = Outstanding
\* a retry with five attempts outstanding while a sixth item waits in the queue
C6_Witness ==
  /\ runKind = "retry"
  /\ Outstanding = 5
  /\ fileQueue # <<>>

\* C7: in every run, initial or retry, the first completion and every
\* completion earlier than 1 second after that run's start publish no ETA.
C7_NoEarlyEta ==
  [][(/\ completions' = completions + 1
      /\ \/ completions' = 1
         \/ now - extractionStartTime < 1000)
     => ~etaPublished']_vars

\* C8: in an initial run every completion from the second on that happens more
\* than 1 second after the run's start publishes an ETA string.
C8_EtaAfterWarmUp ==
  [][(/\ runKind = "extract"
      /\ completions' = completions + 1
      /\ completions' >= 2
      /\ now - extractionStartTime > 1000)
     => (etaPublished' /\ estimatedTimeRemaining' # JNULL)]_vars

\* C9: one retry in which every attempt succeeds (each read resolves and the
\* service answers an object) ends with failedItems empty and no row holding
\* the failure marker.
C9_RetryConverges ==
  (RetryDone /\ ~envFailed) =>
    /\ failedItems = <<>>
    /\ \A i \in 1..Len(CurrentRows) : ~HasMarker(CurrentRows[i])
C9_Witness ==
  /\ RetryDone
  /\ ~envFailed
  /\ Len(closureFailedItems) = 2
  /\ failedItems = <<>>

\* C10: a failed file does not abort the run: no worker leaves while items are
\* queued, and when the run has ended every queued item was taken and
\* completed and exactly the failed files' rows hold the failure marker.
CallQueue == IF retryBase = NullData THEN QueueOf(files) ELSE closureFailedItems
C10_FailureIsolated ==
  /\ (runKind # "none" /\ fileQueue # <<>>) => \A w \in Workers : wpc[w] # "exited"
  /\ appState = "data_display" =>
       /\ Len(attempted) = Len(CallQueue)
       /\ Range(attempted) = IndicesOf(CallQueue)
       /\ completions = Len(CallQueue)
       /\ \A i \in 1..Len(files) : HasMarker(CurrentRows[i]) <=> outcome[i] = "failed"
\* a batch larger than the pool ended with its first file failed and the rest done
C10_Witness ==
  /\ ExtractDone
  /\ Len(files) > 5
  /\ completions = Len(files)
  /\ failedItems = <<Item(files[1], 0)>>

\* C11: when every attempt settles, every run and every retry ends: the queue
\* is drained, all workers have exited, and appState becomes 'data_display'
\* with one row for every input index.
C11_Terminates ==
  (runKind # "none") ~>
    (/\ runKind = "none"
     /\ appState = "data_display"
     /\ fileQueue = <<>>
     /\ \A w \in Workers : wpc[w] = "exited"
     /\ Len(CurrentRows) = Len(files))

\* C12: whatever an attempt yields (a rejected read or call, or an answer that
\* is not an object), no exception escapes handleExtract or handleRetryFailed,
\* and a call that has ended after such an attempt has recorded a failure.
C12_NoEscape ==
  /\ ~uncaught
  /\ (appState = "data_display" /\ runKind = "none" /\ envFailed) => failedItems # <<>>

\* a call of handleExtract or handleRetryFailed that started workers has ended
CallEnded == runKind = "none" /\ completions > 0
RECURSIVE SeqSum(_)
SeqSum(q) == IF q = <<>> THEN 0 ELSE Head(q) + SeqSum(Tail(q))

\* C13 (as stated): when a run or a retry has ended, the number of
\* extractInfoFromSingleFile calls equals the number of queued items.
C13_OncePerItem == CallEnded => calls = Len(CallQueue)

\* C13 (amended): the service is called at most once for an index, only for an
\* index that was taken from the queue and whose file read did not reject; when
\* the run or retry has ended it was called exactly once for every queued item
\* whose read resolved and for no other, so the number of calls is the number
\* of queued items less the rejected reads.
C13_OncePerReadItem ==
  /\ \A i \in 1..Len(callsOf) :
       /\ callsOf[i] <= 1
       /\ callsOf[i] = 1 => ((i - 1) \in Range(attempted) /\ (i - 1) \notin readFailed)
  /\ calls = SeqSum(callsOf)
  /\ CallEnded =>
       /\ \A i \in 1..Len(files) :
            callsOf[i] = IF (i - 1) \in IndicesOf(CallQueue) \ readFailed THEN 1 ELSE 0
       /\ calls = Len(CallQueue) - Cardinality(readFailed)
\* a retry of two failed files has ended; one read rejected, the other file was sent
C13_Witness ==
  /\ RetryDone
  /\ Len(closureFailedItems) = 2
  /\ Cardinality(readFailed) = 1
  /\ calls = 1

\* C14: when a retry has ended, each item it started with either succeeded, and
\* then the row at its index is a success row (no failure marker, the file's
\* own cells) and the item is not in failedItems, or failed again, and then
\* its row is the failure row it was and the item is in failedItems; the rows
\* keep their positions and failedItems is a duplicate-free part of the
\* failedItems the retry started with.
C14_RetryOverwrite ==
  RetryDone =>
    /\ Len(CurrentRows) = Len(Rows(retryBase))
    /\ Range(failedItems) \subseteq Range(closureFailedItems)
    /\ Cardinality(Range(failedItems)) = Len(failedItems)
    /\ \A k \in 1..Len(closureFailedItems) :
         LET item == closureFailedItems[k]
             row == CurrentRows[item.index + 1]
         IN IF outcome[item.index + 1] = "ok"
            THEN /\ item \notin Range(failedItems)
                 /\ ~HasMarker(row)
                 /\ DOMAIN row = Range(orderedHeaders)
                 /\ RowIsOfFile(row, item.index + 1)
            ELSE /\ outcome[item.index + 1] = "failed"
                 /\ item \in Range(failedItems)
                 /\ HasMarker(row)
                 /\ row = Rows(retryBase)[item.index + 1]
\* a retry of two failed files has ended, one succeeded and the other failed again
C14_Witness ==
  /\ RetryDone
  /\ Len(closureFailedItems) = 2
  /\ Len(failedItems) = 1
  /\ \E i, j \in 1..Len(files) :
       /\ outcome[i] = "ok" /\ ~HasMarker(CurrentRows[i])
       /\ outcome[j] = "failed" /\ HasMarker(CurrentRows[j])

\* C15: when handleExtract has finished, failedItems holds exactly the items
\* whose extraction failed in this run, each once and with its own file and
\* original index, and a final row holds the failure marker in every content
\* header if and only if its index is in failedItems.
C15_FailedItemsExact ==
  ExtractDone =>
    IF ContentHeaders = {} THEN failedItems = <<>>
    ELSE /\ Cardinality(Range(failedItems)) = Len(failedItems)
         /\ \A k \in 1..Len(failedItems) :
              /\ failedItems[k].index \in 0..(Len(files) - 1)
              /\ failedItems[k].file = files[failedItems[k].index + 1]
         /\ \A i \in 1..Len(files) :
              /\ (i - 1) \in IndicesOf(failedItems) <=> outcome[i] = "failed"
              /\ HasMarker(CurrentRows[i]) <=> (i - 1) \in IndicesOf(failedItems)
\* two files, the first succeeded and the second failed
C15_Witness ==
  /\ ExtractDone
  /\ Len(files) = 2
  /\ outcome = <<"ok", "failed">>
  /\ failedItems = <<Item(files[2], 1)>>
  /\ HasMarker(CurrentRows[2])

\* C16: every final row of handleExtract has exactly the selected headers as
\* its keys, each with a value; 'Document Name' is the name of the file at the
\* row's index, and a content header that the service's answer lacks or holds
\* as null is 'N/A', any other is the answer's value.
C16_RowKeys ==
  ExtractDone =>
    /\ Len(CurrentRows) = Len(files)
    /\ \A i \in 1..Len(CurrentRows) :
         LET row == CurrentRows[i]
             answer == results[i].row
         IN /\ DOMAIN row = Range(orderedHeaders)
            /\ "S.No" \in DOMAIN row => row["S.No"] \in 1..Len(files)
            /\ \A h \in DOMAIN row \ {"S.No"} : row[h] \notin {UNDEFINED, JNULL}
            /\ "Document Name" \in DOMAIN row => row["Document Name"] = files[i]
            /\ \A h \in ContentHeaders :
                 outcome[i] = "ok" =>
                   row[h] = IF h \in DOMAIN answer /\ answer[h] # JNULL THEN answer[h] ELSE "N/A"
\* the answer for a file lacked the key 'Date' and held null for 'Amount'
C16_Witness ==
  /\ ExtractDone
  /\ orderedHeaders = <<"S.No", "Date", "Amount">>
  /\ \E i \in 1..Len(files) :
       /\ outcome[i] = "ok"
       /\ DOMAIN results[i].row = {"Amount"}
       /\ results[i].row["Amount"] = JNULL
       /\ CurrentRows[i] = [h \in {"S.No", "Date", "Amount"} |-> IF h = "S.No" THEN i ELSE "N/A"]

\* C17: handleExtract called with an empty header list issues no service call,
\* starts no worker, leaves appState, extractedData and failedItems as they
\* were and sets the error 'Please configure headers before extracting.'.
C17_EmptyHeaderGuard ==
  [][(handleExtract /\ orderedHeaders = <<>>) =>
       /\ error' = "Please configure headers before extracting."
       /\ appState' = appState
       /\ extractedData' = extractedData
       /\ failedItems' = failedItems
       /\ calls' = calls /\ callsOf' = callsOf
       /\ runKind' = "none"
       /\ wpc' = NoWorkers
       /\ attempted' = attempted]_vars
\* handleExtract has returned from its guard
C17_Witness ==
  /\ orderedHeaders = <<>>
  /\ files # <<>>
  /\ appState = "prompting"
  /\ error = "Please configure headers before extracting."
  /\ calls = 0

\* C18: within one run or retry no item is taken twice: the indices taken so
\* far are distinct and are no longer queued, the busy workers hold distinct
\* items, every completion wrote for an index no other completion wrote for,
\* and when the call has ended every queued item was taken exactly once.
C18_NoDoubleDequeue ==
  (runKind # "none" \/ CallEnded) =>
    /\ Cardinality(Range(attempted)) = Len(attempted)
    /\ Range(attempted) \cap IndicesOf(fileQueue) = {}
    /\ Range(attempted) \cup IndicesOf(fileQueue) = IndicesOf(CallQueue)
    /\ Len(attempted) + Len(fileQueue) = Len(CallQueue)
    /\ \A v, w \in Workers :
         (v # w /\ wpc[v] # "exited" /\ wpc[w] # "exited") => witem[v].index # witem[w].index
    /\ Cardinality({i \in 1..Len(outcome) : outcome[i] # "none"}) = completions
    /\ CallEnded => (fileQueue = <<>> /\ Len(attempted) = Len(CallQueue))
\* five workers are busy and the sixth item was taken by a worker that had
\* completed its first item
C18_Witness ==
  /\ runKind = "extract"
  /\ Len(files) > 5
  /\ fileQueue = <<>>
  /\ completions = 1
  /\ \A w \in Workers : wpc[w] # "exited"
  /\ witem[3].index = 5

\* the 1-based original indices whose rows are on the table: a live snapshot
\* of handleExtract carries each row's index + 1 in 'S.No'; a final table and
\* a snapshot of handleRetryFailed hold one row per index
LiveOfExtract == appState = "extracting_data" /\ retryBase = NullData
ShownIndices ==
  IF LiveOfExtract THEN {CurrentRows[p]["S.No"] : p \in 1..Len(CurrentRows)}
  ELSE 1..Len(CurrentRows)

\* C19: during a run or retry every completion publishes a snapshot that
\* holds a row for exactly the indices for which a row (an object) has been
\* written so far, in increasing original index; an index shown in one snapshot is shown in every later snapshot of
\* the call and in the final table.
C19_LiveMonotone ==
  [][runKind # "none" =>
       /\ ShownIndices \subseteq ShownIndices'
       /\ completions' = completions + 1 =>
            IF runKind = "extract"
            THEN /\ ShownIndices' =
                      {i \in 1..Len(files) : outcome'[i] # "none" /\ results'[i].kind = "obj"}
                 /\ Len(CurrentRows') = Cardinality(ShownIndices')
                 /\ \A p, q \in 1..Len(CurrentRows') :
                      p < q => CurrentRows'[p]["S.No"] < CurrentRows'[q]["S.No"]
            ELSE CurrentRows' = [i \in 1..Len(files) |-> results'[i].row]]_vars
\* the second file completed first, and now both rows are on the live table
C19_Witness ==
  /\ runKind = "extract"
  /\ firstDone = 1
  /\ completions = 2
  /\ Len(CurrentRows) = 2
  /\ CurrentRows[1]["S.No"] = 1
  /\ CurrentRows[2]["S.No"] = 2

\* C20 (as stated): in every live snapshot of a run the row at 0-based
\* position p has S.No = p + 1.
C20_LiveDenseSNo ==
  LiveOfExtract => \A p \in 1..Len(CurrentRows) : CurrentRows[p]["S.No"] = p

\* C20 (amended): in every live snapshot of a run the S.No of a row is its
\* original index + 1, the number of the file whose cells the row holds: the
\* numbers increase along the snapshot, are never below the position, and are
\* dense exactly when no lower index is still unwritten.
C20_LiveIndexSNo ==
  LiveOfExtract =>
    /\ \A p \in 1..Len(CurrentRows) :
         LET row == CurrentRows[p]
             i == row["S.No"]
         IN /\ i \in p..Len(files)
            /\ outcome[i] # "none"
            /\ "Document Name" \in Range(orderedHeaders) => row["Document Name"] = files[i]
            /\ \A h \in ContentHeaders :
                 row[h] \in (IF outcome[i] = "failed" THEN {"--- EXTRACTION FAILED ---"}
                             ELSE {ValueOf(files[i], h), UNDEFINED, JNULL})
    /\ \A p, q \in 1..Len(CurrentRows) : p < q => CurrentRows[p]["S.No"] < CurrentRows[q]["S.No"]
    /\ (\A p \in 1..Len(CurrentRows) : CurrentRows[p]["S.No"] = p)
         <=> ShownIndices = 1..Len(CurrentRows)
\* the only row on the live table is the second file's, numbered 2
C20_Witness ==
  /\ runKind = "extract"
  /\ Len(files) = 2
  /\ Len(CurrentRows) = 1
  /\ CurrentRows[1]["S.No"] = 2
  /\ "Document Name" \in Range(orderedHeaders)
  /\ CurrentRows[1]["Document Name"] = files[2]

\* C21 (as stated): the keys of every row of every live snapshot are exactly
\* the selected headers.
C21_LiveKeysSelected ==
  appState = "extracting_data" =>
    \A p \in 1..Len(CurrentRows) : DOMAIN CurrentRows[p] = Range(orderedHeaders)

\* C21 (amended): the keys of every row of a live snapshot of handleExtract
\* are the selected headers and 'S.No', which is there whether it is selected
\* or not; the rows of a snapshot of handleRetryFailed have exactly the
\* selected headers.
C21_LiveKeysWithSNo ==
  appState = "extracting_data" =>
    \A p \in 1..Len(CurrentRows) :
      DOMAIN CurrentRows[p] =
        IF LiveOfExtract THEN Range(orderedHeaders) \cup {"S.No"} ELSE Range(orderedHeaders)
\* 'S.No' is not selected and the live row of a run carries it
C21_Witness ==
  /\ runKind = "extract"
  /\ orderedHeaders = <<"Document Name", "Amount">>
  /\ Len(CurrentRows) >= 1
  /\ DOMAIN CurrentRows[1] = {"S.No", "Document Name", "Amount"}

\* C22: items are taken first in, first out: the j-th item taken in a run is
\* the file with original index j - 1, the j-th taken in a retry is the j-th
\* of the failedItems the retry started with, and what is still queued is the
\* rest of that list in its order.
C22_Fifo ==
  (runKind # "none" \/ CallEnded) =>
    /\ Len(attempted) <= Len(CallQueue)
    /\ \A j \in 1..Len(attempted) : attempted[j] = CallQueue[j].index
    /\ runKind # "none" => fileQueue = SubSeq(CallQueue, Len(attempted) + 1, Len(CallQueue))
    /\ retryBase = NullData => \A j \in 1..Len(attempted) : attempted[j] = j - 1
\* in a retry of six failed files the sixth item went to the second worker
C22_Witness ==
  /\ runKind = "retry"
  /\ Len(closureFailedItems) = 6
  /\ Len(attempted) = 6
  /\ witem[2] = closureFailedItems[6]
  /\ wpc[2] = "calling"

\* C23: every run and every retry sets the start time to the current time,
\* and the elapsed time of every ETA computation of that call is measured
\* from that start, not from the start of an earlier call.
C23_ElapsedSinceRunStart ==
  [][/\ (runKind = "none" /\ runKind' # "none") => extractionStartTime' = now
     /\ (completions' = completions + 1 /\ etaPublished') =>
          closureStartTime = extractionStartTime]_vars

SecondsText(k) == "about " \o ToString(k) \o " second" \o (IF k > 1 THEN "s" ELSE "")
MinutesText(m, k) ==
  "about " \o ToString(m) \o " minute" \o (IF m > 1 THEN "s" ELSE "")
  \o (IF k > 10 THEN " and " \o ToString(k) \o " seconds" ELSE "")
\* the duration held by smoothedEtaRef, a whole number of milliseconds
Finite == smoothedEtaRef[2] = 1
Ms == smoothedEtaRef[1]
\* the whole second nearest to Ms, the half going up
NearestSecond == CHOOSE k \in 0..((Ms \div 1000) + 1) : 1000 * k - 500 <= Ms /\ Ms < 1000 * k + 500

\* C25 (as stated): a duration below 1 second, or not finite, gives 'a few
\* seconds'; one of 60 seconds or more gives the minutes form; every duration
\* from 1 second up to but not including 60 seconds gives 'about S second(s)'.
C25_FormatByDuration ==
  etaPublished =>
    IF ~Finite \/ Ms < 1000 THEN estimatedTimeRemaining = "a few seconds"
    ELSE IF Ms >= 60000
         THEN estimatedTimeRemaining = MinutesText(NearestSecond \div 60, NearestSecond % 60)
         ELSE estimatedTimeRemaining \in {SecondsText(k) : k \in 1..60}

\* C25 (amended): a duration below 1 second, or not finite, gives 'a few
\* seconds'; otherwise the duration is rounded to the nearest second T, and
\* T >= 60 gives 'about M minute(s)' with ' and S seconds' exactly when
\* S = T mod 60 exceeds 10, and T < 60 gives 'about T second(s)'; so a
\* duration from 59.5 up to 60 seconds reads 'about 1 minute'.  No number
\* shown is negative.
C25_FormatByRoundedSeconds ==
  etaPublished =>
    IF ~Finite \/ Ms < 1000 THEN estimatedTimeRemaining = "a few seconds"
    ELSE /\ NearestSecond >= 1
         /\ IF NearestSecond >= 60
            THEN estimatedTimeRemaining = MinutesText(NearestSecond \div 60, NearestSecond % 60)
            ELSE estimatedTimeRemaining = SecondsText(NearestSecond)
\* a duration below 60 seconds was formatted as a minute
C25_Witness ==
  /\ etaPublished
  /\ Finite
  /\ Ms < 60000
  /\ estimatedTimeRemaining = "about 1 minute"

\* C26: at every point of a run or retry the processed counter equals the
\* number of items completed so far in that call and does not exceed the
\* call's total, the progress is the rounded percentage of it, and when the
\* call has ended the counter equals the total and the progress is 100.
C26_ProcessedCounter ==
  (runKind # "none" \/ CallEnded) =>
    /\ processedFileCount = completions
    /\ processedFileCount = Cardinality({i \in 1..Len(outcome) : outcome[i] # "none"})
    /\ processedFileCount <= Len(CallQueue)
    /\ LET d == 100 * processedFileCount - progress * Len(CallQueue)
       IN -Len(CallQueue) < 2 * d /\ 2 * d <= Len(CallQueue)
    /\ CallEnded => (processedFileCount = Len(CallQueue) /\ progress = 100)
\* four of six items are completed while two workers are still busy
C26_Witness ==
  /\ runKind = "extract"
  /\ Len(files) = 6
  /\ processedFileCount = 4
  /\ progress = 67
  /\ Cardinality({w \in Workers : wpc[w] # "exited"}) = 2

\* the files whose row on the final table holds the failure marker
FailedRows == IF ContentHeaders = {} THEN {}
              ELSE {i \in 1..Len(CurrentRows) : HasMarker(CurrentRows[i])}

\* C27: on the 'data_display' screen after a run or a retry the title is
\* 'Extraction Complete!' exactly when no file failed, 'Extraction Complete
\* with Errors' exactly when some but not all failed, 'Extraction Failed'
\* exactly when every file failed, and the retry button is there exactly when
\* failedItems is not empty, which is exactly when some file failed.
C27_EndStates ==
  appState = "data_display" =>
    /\ Len(CurrentRows) = Len(files)
    /\ title = "Extraction Complete!" <=> FailedRows = {}
    /\ title = "Extraction Complete with Errors" <=>
         (FailedRows # {} /\ FailedRows # 1..Len(files))
    /\ title = "Extraction Failed" <=> FailedRows = 1..Len(files)
    /\ retryOffered <=> failedItems # <<>>
    /\ retryOffered <=> FailedRows # {}
\* after a retry of two failed files one is still failed: complete with errors
C27_Witness ==
  /\ RetryDone
  /\ Len(closureFailedItems) = 2
  /\ Len(files) = 2
  /\ Cardinality(FailedRows) = 1
  /\ title = "Extraction Complete with Errors"
  /\ retryOffered


\* C28: in the header configuration the ordered list has no duplicate and
\* holds exactly the headers marked selected, after any sequence of checkbox
\* toggles, removals, select all, deselect all, manual additions and drags;
\* the list handed to onConfirm is that list.
NoDuplicate(list) == \A i, j \in 1..Len(list) : list[i] = list[j] => i = j
SelectedSet == {h \in DOMAIN selectedHeaders : selectedHeaders[h]}
C28_OrderedIsSelected ==
  /\ NoDuplicate(configOrdered)
  /\ Range(configOrdered) = SelectedSet
  /\ appState = "prompting" => orderedHeaders = configOrdered /\ orderedHeaders # <<>>
\* confirmed after a manual header was added, dragged to the front, and a
\* suggested header was unchecked
C28_Witness ==
  /\ appState = "prompting"
  /\ Len(orderedHeaders) >= 3
  /\ orderedHeaders[1] = "Total"
  /\ SNO \in DOMAIN selectedHeaders /\ ~selectedHeaders[SNO]

\* C29: when the header identification fails (a file read or the service call
\* rejects) the application goes back to the upload screen with an error
\* message, the suggested headers as they were and the file list kept.
IdentifyFailed ==
  appState = "identifying_headers" /\ appState' \notin {"identifying_headers", "header_selection"}
C29_IdentifyFailureAborts ==
  [][IdentifyFailed =>
       /\ appState' = "file_upload"
       /\ error' # JNULL
       /\ suggestedHeaders' = suggestedHeaders
       /\ files' = files]_vars
\* the service rejected with two documents uploaded
C29_Witness ==
  /\ appState = "file_upload"
  /\ error = "Failed to communicate with the AI."
  /\ progress = 75
  /\ Len(files) = 2

\* C30: at most one extraction run is active: a run or a retry starts only
\* when no worker of an earlier run or retry is pending, and workers are
\* pending only on the extracting screen of the run that launched them.
WorkerPending(w) == wpc[w] \in {"reading", "calling"}
RunStarts == appState # "extracting_data" /\ appState' = "extracting_data"
C30_OneRunAtATime ==
  /\ [][RunStarts => runKind = "none" /\ \A w \in Workers : ~WorkerPending(w)]_vars
  /\ []((\E w \in Workers : WorkerPending(w)) =>
          appState = "extracting_data" /\ runKind # "none")
\* a retry is running with a worker pending, after the run before it ended
C30_Witness ==
  /\ runKind = "retry"
  /\ isRetrying
  /\ \E w \in Workers : WorkerPending(w)
  /\ \E i \in 1..Len(outcome) : outcome[i] # "none"
====
